---- MODULE Spec2Model ----
(***************************************************************************)
(* Model of src/src/reducer.ts: the resource reducer of                    *)
(* redux-api-resources.  The reducer is a function of (state, action); the *)
(* state machine below is a store that holds one slice and applies the     *)
(* reducer to every dispatched action.                                     *)
(*                                                                         *)
(* JavaScript values are tagged records.  Strings that the reducer takes   *)
(* apart or case-folds (the action type, the resource name, the status     *)
(* keys) are sequences of one-character strings; all other strings         *)
(* (property keys, field names) are TLA+ strings.                          *)
(*                                                                         *)
(* The only objects the reducer ever writes through without copying them   *)
(* first are the per-form changeset buffers (reducer.ts:92), so these live *)
(* in a heap and `changeset` maps a form to an address; every other nested *)
(* object is written only on a fresh copy and is modelled by value.        *)
(***************************************************************************)
EXTENDS Integers, Sequences, FiniteSets

VARIABLES
  resourceName,  \* the name the reducer was constructed with
  state,         \* the slice the store holds
  heap,          \* the changeset buffers, by address
  action,        \* the action dispatched last
  previous,      \* the type of the action dispatched before that one
  threw          \* whether the last call of the reducer threw

vars == <<resourceName, state, heap, action, previous, threw>>

(***************************************************************************)
(* Bounds of the model.                                                    *)
(***************************************************************************)
\* numeric identifiers are 1..MaxId
MaxId == 2
\* array payloads have at most MaxArrayLen elements
MaxArrayLen == 2

(***************************************************************************)
(* JavaScript values.                                                      *)
(***************************************************************************)
Undefined == [t |-> "undefined"]
Null == [t |-> "null"]
Bool(b) == [t |-> "boolean", b |-> b]
Num(n) == [t |-> "number", n |-> n]
Str(s) == [t |-> "string", s |-> s]
Obj(f) == [t |-> "object", f |-> f]
Arr(a) == [t |-> "array", a |-> a]

JTrue == Bool(TRUE)
JFalse == Bool(FALSE)

\* the empty mapping {}
EmptyMap == [k \in {} |-> Null]

\* ToBoolean, as in `!v`, `if (v)` and `v ? ... : null`
Truthy(v) ==
  CASE v.t = "undefined" -> FALSE
    [] v.t = "null" -> FALSE
    [] v.t = "boolean" -> v.b
    [] v.t = "number" -> v.n # 0
    [] v.t = "string" -> v.s # ""
    [] v.t = "object" -> TRUE
    [] v.t = "array" -> TRUE

Digits == <<"0", "1", "2", "3", "4", "5", "6", "7", "8", "9">>

\* Number-to-string conversion of a non-negative integer
RECURSIVE NumStr(_)
NumStr(n) == IF n < 10 THEN Digits[n + 1] ELSE NumStr(n \div 10) \o Digits[(n % 10) + 1]

\* `obj[key]` throws a TypeError when obj is null or undefined
Nullish(v) == v.t \in {"undefined", "null"}

\* StringOf, and Array.prototype.join(",") from element i on
RECURSIVE StringOf(_), JoinFrom(_, _)
StringOf(v) ==
  CASE v.t = "number" -> NumStr(v.n)
    [] v.t = "string" -> v.s
    [] v.t = "undefined" -> "undefined"
    [] v.t = "null" -> "null"
    [] v.t = "boolean" -> IF v.b THEN "true" ELSE "false"
    [] v.t = "object" -> "[object Object]"
    [] v.t = "array" -> JoinFrom(v.a, 1)
JoinFrom(a, i) ==
  IF i > Len(a) THEN ""
  ELSE (IF Nullish(a[i]) THEN "" ELSE StringOf(a[i]))
         \o (IF i < Len(a) THEN "," \o JoinFrom(a, i + 1) ELSE "")

\* a variant of ToPropertyKey that maps every value to one key
ToPropertyKeyFixed(v) == "undefined"

\* ToPropertyKey: the string under which `obj[v]` is stored or looked up
ToPropertyKey(v) == StringOf(v)

\* `obj[key]` for a non-nullish obj and a key that no prototype defines
Get(obj, key) ==
  IF obj.t = "object" /\ key \in DOMAIN obj.f THEN obj.f[key] ELSE Undefined

\* the own enumerable properties that `{...v}` copies (strings are not spread
\* in the model)
Spread(v) ==
  CASE v.t = "object" -> v.f
    [] v.t = "array" -> [i \in {NumStr(j - 1) : j \in 1..Len(v.a)} |->
                          v.a[CHOOSE j \in 1..Len(v.a) : NumStr(j - 1) = i]]
    [] OTHER -> EmptyMap

\* a variant of Merge in which the keys of f win
MergeKeep(f, g) == [k \in (DOMAIN f) \cup (DOMAIN g) |-> IF k \in DOMAIN f THEN f[k] ELSE g[k]]

\* { ...f, ...g }
Merge(f, g) == [k \in (DOMAIN f) \cup (DOMAIN g) |-> IF k \in DOMAIN g THEN g[k] ELSE f[k]]

\* f[k] = v on a mapping
SetKey(f, k, v) == [x \in (DOMAIN f) \cup {k} |-> IF x = k THEN v ELSE f[x]]

\* delete f[k]
DeleteKey(f, k) == [x \in (DOMAIN f) \ {k} |-> f[x]]

\* f[k], undefined when the key is absent
Lookup(f, k) == IF k \in DOMAIN f THEN f[k] ELSE Undefined

\* Array.isArray(v) ? v : [v]
AsArray(v) == IF v.t = "array" THEN v.a ELSE <<v>>

\* a variant of IndexOf that never finds the value
IndexOfAbsent(list, v) == 0

\* list.indexOf(v): strict equality, 1-based here, 0 when absent
IndexOf(list, v) ==
  IF \E i \in 1..Len(list) : list[i] = v
  THEN CHOOSE i \in 1..Len(list) : list[i] = v /\ \A j \in 1..(i - 1) : list[j] # v
  ELSE 0

\* list.splice(idx, 1)
Splice(list, idx) ==
  [i \in 1..(Len(list) - 1) |-> IF i < idx THEN list[i] ELSE list[i + 1]]

(***************************************************************************)
(* Strings as character sequences: toUpperCase, toLowerCase, split('/').   *)
(***************************************************************************)
UpperLetters == <<"A", "B", "C", "D", "E", "F", "G", "H", "I", "J", "K", "L", "M",
                  "N", "O", "P", "Q", "R", "S", "T", "U", "V", "W", "X", "Y", "Z">>
LowerLetters == <<"a", "b", "c", "d", "e", "f", "g", "h", "i", "j", "k", "l", "m",
                  "n", "o", "p", "q", "r", "s", "t", "u", "v", "w", "x", "y", "z">>

\* the case mappings of the letters; other characters map to themselves
UpperOf == [c \in {LowerLetters[i] : i \in 1..Len(LowerLetters)} |->
             UpperLetters[CHOOSE i \in 1..Len(LowerLetters) : LowerLetters[i] = c]]
LowerOf == [c \in {UpperLetters[i] : i \in 1..Len(UpperLetters)} |->
             LowerLetters[CHOOSE i \in 1..Len(UpperLetters) : UpperLetters[i] = c]]

UpperChar(c) == IF c \in DOMAIN UpperOf THEN UpperOf[c] ELSE c
LowerChar(c) == IF c \in DOMAIN LowerOf THEN LowerOf[c] ELSE c

\* a variant of toUpperCase that leaves the string as it is
toUpperCaseNot(s) == s

toUpperCase(s) == [i \in 1..Len(s) |-> UpperChar(s[i])]
toLowerCase(s) == [i \in 1..Len(s) |-> LowerChar(s[i])]

\* an array slot that destructuring finds missing
UndefinedSegment == <<"undefined">>

\* type.split('/'): the segments of type from character i on, `segment`
\* being the characters read since the last "/"
RECURSIVE splitFrom(_, _, _)
splitFrom(type, i, segment) ==
  IF i > Len(type) THEN <<segment>>
  ELSE IF type[i] = "/" THEN <<segment>> \o splitFrom(type, i + 1, <<>>)
  ELSE splitFrom(type, i + 1, Append(segment, type[i]))

split(type) == splitFrom(type, 1, <<>>)

\* a variant of Segment that finds every slot missing unless there are
\* exactly three
SegmentOfThree(segs, i) == IF Len(segs) = 3 THEN segs[i] ELSE UndefinedSegment

\* const [a, b, c] = array
Segment(segs, i) == IF i <= Len(segs) THEN segs[i] ELSE UndefinedSegment

\* the words the reducer compares segments with, and the status keys
RESOURCE == <<"R", "E", "S", "O", "U", "R", "C", "E">>
META == <<"M", "E", "T", "A">>
CHANGESET == <<"C", "H", "A", "N", "G", "E", "S", "E", "T">>
START == <<"S", "T", "A", "R", "T">>
SUCCESS == <<"S", "U", "C", "C", "E", "S", "S">>
FAILURE == <<"F", "A", "I", "L", "U", "R", "E">>
RESET == <<"R", "E", "S", "E", "T">>
MERGE == <<"M", "E", "R", "G", "E">>
REMOVE == <<"R", "E", "M", "O", "V", "E">>
DESTROY == <<"D", "E", "S", "T", "R", "O", "Y">>
fetch == <<"f", "e", "t", "c", "h">>
create == <<"c", "r", "e", "a", "t", "e">>
update == <<"u", "p", "d", "a", "t", "e">>
destroy == <<"d", "e", "s", "t", "r", "o", "y">>

(***************************************************************************)
(* The initial state.                                                      *)
(***************************************************************************)
\* reducer.ts:203
defaultStatus ==
  [pending |-> Null, id |-> Null, busy |-> JFalse, success |-> Null, payload |-> Null]

\* a variant of createStatus without the destroy key
createStatusThree == [key \in {fetch, create, update} |-> defaultStatus]

\* reducer.ts:196
createStatus == [key \in {fetch, create, update, destroy} |-> defaultStatus]

\* reducer.ts:3
initialResourceState ==
  [results |-> <<>>, entities |-> EmptyMap, meta |-> EmptyMap, changeset |-> EmptyMap,
   status |-> createStatus]

(***************************************************************************)
(* The reducer.  A call either returns a state (and the heap as the call   *)
(* left it) or throws.                                                     *)
(***************************************************************************)
Returned(s, h) == [state |-> s, heap |-> h, threw |-> FALSE]
Thrown == [threw |-> TRUE]

\* the smallest address `heap` does not use
NewAddress(h) == CHOOSE a \in 1..(Cardinality(DOMAIN h) + 1) : a \notin DOMAIN h

\* a variant of changesetReducer that replaces the buffer by the changes
changesetReducerReplace(changeset, changes) == Spread(changes)

\* the default options, reducer.ts:23-30
idAttribute == "id"
onUpdate(prev, next) == next
changesetReducer(changeset, changes) == Merge(Spread(changeset), Spread(changes))
entityReducer(action_type, payload, meta) == payload
errorReducer(action_type, payload, meta) == payload

\* a variant of handleClear that resets the status of every operation
handleClearAll(crudType, act, st) == [st EXCEPT !.status = createStatus]

\* a variant of handleClear that empties the collection too
handleClearSlice(crudType, act, st) ==
  [st EXCEPT !.results = <<>>, !.entities = EmptyMap,
             !.status = SetKey(st.status, toLowerCase(crudType), defaultStatus)]

\* reducer.ts:103
handleClear(crudType, act, st) ==
  [st EXCEPT !.status = SetKey(st.status, toLowerCase(crudType), defaultStatus)]

\* the status record of reducer.ts:114-119
started(act) ==
  [pending |-> JTrue, busy |-> JTrue, success |-> Null, payload |-> act.payload]

\* a variant of handleStart that leaves the status of a pending operation
\* as it is
handleStartOnce(crudType, act, st) ==
  IF Lookup(st.status, toLowerCase(crudType)) # Undefined
       /\ st.status[toLowerCase(crudType)].pending = JTrue
  THEN st
  ELSE [st EXCEPT !.status = SetKey(st.status, toLowerCase(crudType),
                                    [pending |-> JTrue, busy |-> JTrue, success |-> Null,
                                     payload |-> act.payload])]

\* reducer.ts:113
handleStart(crudType, act, st) ==
  [st EXCEPT !.status = SetKey(st.status, toLowerCase(crudType), started(act))]

\* a variant of `failed` that settles the operation as SUCCESS does
failedSettled(crudType, act) ==
  [pending |-> JFalse, busy |-> JFalse, success |-> JFalse,
   payload |-> IF Truthy(act.payload)
               THEN errorReducer(crudType, act.payload, act.meta)
               ELSE Null]

\* the status record of reducer.ts:187-192
failed(crudType, act) ==
  [pending |-> JTrue, busy |-> JFalse, success |-> JFalse,
   payload |-> IF Truthy(act.payload)
               THEN errorReducer(crudType, act.payload, act.meta)
               ELSE Null]

\* reducer.ts:186
handleFailure(crudType, act, st) ==
  [st EXCEPT !.status = SetKey(st.status, toLowerCase(crudType), failed(crudType, act))]

\* a variant of `push` that puts the id in front
pushFront(results, id) == <<id>> \o results

\* results.push(id), reducer.ts:160
push(results, id) == Append(results, id)

\* the forEach of reducer.ts:156-165 from element i on; reading the id of a
\* null or undefined element throws
RECURSIVE updateEach(_, _, _)
updateEach(payload, i, st) ==
  IF i > Len(payload) THEN [state |-> st, threw |-> FALSE]
  ELSE LET obj == payload[i] IN
    IF Nullish(obj) THEN Thrown
    ELSE LET id == Get(obj, idAttribute) IN
      IF Truthy(id)
      THEN LET key == ToPropertyKey(id)
               results == IF IndexOf(st.results, id) = 0
                          THEN push(st.results, id)
                          ELSE st.results
               entities == SetKey(st.entities, key, onUpdate(Lookup(st.entities, key), obj))
           IN updateEach(payload, i + 1, [st EXCEPT !.results = results, !.entities = entities])
      ELSE updateEach(payload, i + 1, st)

\* reducer.ts:152
updateInResource(payload, act, st) == updateEach(AsArray(payload), 1, st)

\* the forEach of reducer.ts:174-181 from element i on
RECURSIVE destroyEach(_, _, _)
destroyEach(payload, i, st) ==
  IF i > Len(payload) THEN [state |-> st, threw |-> FALSE]
  ELSE LET obj == payload[i] IN
    IF Nullish(obj) THEN Thrown
    ELSE LET id == IF obj.t \in {"number", "string"} THEN obj ELSE Get(obj, idAttribute)
             idx == IndexOf(st.results, id)
             results == IF idx > 0 THEN Splice(st.results, idx) ELSE st.results
             entities == DeleteKey(st.entities, ToPropertyKey(id))
         IN destroyEach(payload, i + 1, [st EXCEPT !.results = results, !.entities = entities])

\* reducer.ts:170
destroyInResource(payload, act, st) == destroyEach(AsArray(payload), 1, st)

\* a variant of `noPayload` that takes only null and undefined for absent
noPayloadNullish(payload) == Nullish(payload)

\* `!payload`, reducer.ts:127
noPayload(payload) == ~Truthy(payload)

\* a variant of `succeeded` that leaves the operation in flight
succeededBusy(act) ==
  [pending |-> JFalse, busy |-> JTrue, success |-> JTrue, payload |-> act.payload]

\* the status record of reducer.ts:134-139
succeeded(act) ==
  [pending |-> JFalse, busy |-> JFalse, success |-> JTrue, payload |-> act.payload]

\* reducer.ts:123
handleSuccess(crudType, act, st) ==
  IF noPayload(act.payload) THEN [state |-> st, threw |-> FALSE]
  ELSE LET newState ==
             [results |-> st.results,
              entities |-> st.entities,
              meta |-> IF act.meta = Null \/ act.meta = JFalse
                       THEN EmptyMap
                       ELSE Merge(st.meta, Spread(act.meta)),
              changeset |-> st.changeset,
              status |-> SetKey(st.status, toLowerCase(crudType), succeeded(act))]
           data == entityReducer(crudType, act.payload, act.meta)
       IN IF crudType = DESTROY
          THEN destroyInResource(data, act, newState)
          ELSE updateInResource(data, act, newState)

\* reducer.ts:53
handleResource(domain, method, act, st, h) ==
  CASE method = START -> Returned(handleStart(domain, act, st), h)
    [] method = SUCCESS ->
         LET r == handleSuccess(domain, act, st)
         IN IF r.threw THEN Thrown ELSE Returned(r.state, h)
    [] method = FAILURE -> Returned(handleFailure(domain, act, st), h)
    [] method = RESET -> Returned(handleClear(domain, act, st), h)
    [] OTHER -> Returned(st, h)

\* the forEach of reducer.ts:91-93 from field i on: the buffer at address a
\* is the one the previous state holds, and is changed in place
RECURSIVE removeEach(_, _, _, _)
removeEach(fields, i, a, h) ==
  IF i > Len(fields) THEN h
  ELSE removeEach(fields, i + 1, a,
                  [h EXCEPT ![a] = DeleteKey(h[a], ToPropertyKey(fields[i]))])

\* reducer.ts:74
handleChangeset(domain, method, act, st, h) ==
  LET payload == act.payload
      meta == IF act.meta = Undefined THEN Obj(EmptyMap) ELSE act.meta
  IN IF meta = Null THEN Thrown
     ELSE LET formValue == Get(meta, "form")
              form == IF formValue = Undefined THEN "default" ELSE ToPropertyKey(formValue)
              present == form \in DOMAIN st.changeset
              a == NewAddress(h)
          IN CASE method = MERGE ->
                    Returned([st EXCEPT !.changeset = SetKey(st.changeset, form, a)],
                             SetKey(h, a, changesetReducer(
                                            IF present THEN Obj(h[st.changeset[form]])
                                            ELSE Undefined,
                                            payload)))
               [] method = REMOVE ->
                    IF Len(AsArray(payload)) = 0 THEN Returned(st, h)
                    ELSE IF ~present THEN Thrown
                    ELSE Returned(st, removeEach(AsArray(payload), 1, st.changeset[form], h))
               [] method = RESET ->
                    Returned([st EXCEPT !.changeset = SetKey(st.changeset, form, a)],
                             SetKey(h, a, EmptyMap))
               [] OTHER -> Returned(st, h)

\* a variant of `matches` that folds the case of the action's segment too
matchesAnyCase(name, actionName) == name = toUpperCase(actionName)

\* `name == actionName`, reducer.ts:36
matches(name, actionName) == name = actionName

\* reducer.ts:13-51: the closure returned for resourceName, applied to
\* (state, action)
resourceReducer(rname, st, h, act) ==
  LET name == toUpperCase(rname)
      route(segments) ==
        LET actionName == Segment(segments, 1)
            actionDomain == Segment(segments, 2)
            actionMethod == Segment(segments, 3)
        IN IF matches(name, actionName)
           THEN CASE actionDomain = RESOURCE -> Returned(initialResourceState, h)
                  [] actionDomain = META -> Returned([st EXCEPT !.meta = EmptyMap], h)
                  [] actionDomain = CHANGESET ->
                       handleChangeset(actionDomain, actionMethod, act, st, h)
                  [] OTHER -> handleResource(actionDomain, actionMethod, act, st, h)
           ELSE Returned(st, h)
  IN route(split(act.type))

(***************************************************************************)
(* The store: holds the slice and applies the reducer to each action.      *)
(***************************************************************************)
\* the buffers a state refers to
Addresses(st) == {st.changeset[f] : f \in DOMAIN st.changeset}

\* the changeset of a state with every buffer read from heap h
Buffers(st, h) == [f \in DOMAIN st.changeset |-> h[st.changeset[f]]]

\* the contents of a state: every nested object by value
Contents(st, h) == [st EXCEPT !.changeset = Buffers(st, h)]

NoAction == [type |-> <<>>, payload |-> Undefined, meta |-> Undefined]

\* One dispatch: the store applies the reducer to the state st it holds.  A
\* throwing reducer leaves the store's state in place.  The heap keeps the
\* buffers of the state passed in and of the state returned.
Dispatch(st, act) ==
  \E r \in {resourceReducer(resourceName, st, heap, act)} :
     /\ action' = act
     /\ previous' = action.type
     /\ threw' = r.threw
     /\ state' = IF r.threw THEN st ELSE r.state
     /\ heap' = IF r.threw THEN heap
                ELSE [a \in Addresses(st) \cup Addresses(r.state) |-> r.heap[a]]
     /\ UNCHANGED resourceName

(***************************************************************************)
(* Inputs: action types are written by joining segments with "/".          *)
(***************************************************************************)
USERS == <<"U", "S", "E", "R", "S">>
users == <<"u", "s", "e", "r", "s">>
POSTS == <<"P", "O", "S", "T", "S">>
FETCH == <<"F", "E", "T", "C", "H">>

ActionType(resource, domain, method) == resource \o <<"/">> \o domain \o <<"/">> \o method

MkAction(ty, p, m) == [type |-> ty, payload |-> p, meta |-> m]

\* arrays of MaxArrayLen elements drawn from a set
ArraysOf(elements) == {Arr(a) : a \in [1..MaxArrayLen -> elements]}

\* identifiers: the numbers 1..MaxId, and the string that is the property key
\* of the number 1
NumIds == {Num(i) : i \in 1..MaxId}
StrIds == {Str(NumStr(1))}
WithId(id) == Obj([id |-> id])
NoId == Obj(EmptyMap)

\* payloads of a FETCH/SUCCESS action: an entity with a number or string id
\* or without one, arrays of entities in every order and with repetitions,
\* an array that starts with a falsy id, an array holding null
UpdatePayloads ==
  {WithId(id) : id \in NumIds \cup StrIds} \cup {NoId}
    \cup ArraysOf({WithId(Num(1)), WithId(Num(MaxId))})
    \cup {Arr(<<WithId(Num(0)), WithId(Num(1))>>), Arr(<<WithId(Num(1)), Null>>)}

\* payloads of a DESTROY/SUCCESS action: identifiers as primitives or as
\* objects carrying the id, singly or in an array
DestroyPayloads ==
  NumIds \cup StrIds \cup {WithId(Num(1)), NoId}
    \cup {Arr(<<Num(1), WithId(Num(MaxId))>>), Arr(<<Num(1), Null>>)}

Init ==
  /\ resourceName = USERS
  /\ state = initialResourceState
  /\ heap = EmptyMap
  /\ action = NoAction
  /\ previous = <<>>
  /\ threw = FALSE

(***************************************************************************)
(* SpecEntities: a store configured for "USERS" that receives the SUCCESS  *)
(* actions of fetches and destroys.                                        *)
(***************************************************************************)
FetchSuccess ==
  \E p \in UpdatePayloads : Dispatch(state, MkAction(ActionType(USERS, FETCH, SUCCESS), p, Undefined))

DestroySuccess ==
  \E p \in DestroyPayloads : Dispatch(state, MkAction(ActionType(USERS, DESTROY, SUCCESS), p, Undefined))

NextEntities == FetchSuccess \/ DestroySuccess

SpecEntities == Init /\ [][NextEntities]_vars

(***************************************************************************)
(* SpecStatus: the life cycle actions of two operations, FETCH and         *)
(* DESTROY, in any order, with falsy and truthy payloads.                  *)
(***************************************************************************)
Operations == {FETCH, DESTROY}

FalsyPayloads == {Null, Undefined, Num(0), Str(""), JFalse}
Page == Obj([page |-> Num(1)])
Metas == {Undefined, Null, JFalse, Page}

Start ==
  \E x \in Operations, p \in {Undefined, WithId(Num(1))} :
    Dispatch(state, MkAction(ActionType(USERS, x, START), p, Undefined))

Success ==
  \E x \in Operations, p \in FalsyPayloads \cup {WithId(Num(1))}, m \in Metas :
    Dispatch(state, MkAction(ActionType(USERS, x, SUCCESS), p, m))

Failure ==
  \E x \in Operations, p \in {Undefined, Num(0), Str("error")}, m \in {Undefined, Page} :
    Dispatch(state, MkAction(ActionType(USERS, x, FAILURE), p, m))

Reset ==
  \E x \in Operations : Dispatch(state, MkAction(ActionType(USERS, x, RESET), Undefined, Undefined))

NextStatus == Start \/ Success \/ Failure \/ Reset

SpecStatus == Init /\ [][NextStatus]_vars

(***************************************************************************)
(* SpecRouting: reducers constructed as "users" and as "USERS" receive     *)
(* actions of their own resource, of the same name in lower case and of    *)
(* another resource.                                                       *)
(***************************************************************************)
InitRouting ==
  /\ resourceName \in {users, USERS}
  /\ state = initialResourceState
  /\ heap = EmptyMap
  /\ action = NoAction
  /\ previous = <<>>
  /\ threw = FALSE

\* the domain and method of the routed actions: one per branch of the router
Routes ==
  {<<FETCH, START>>, <<FETCH, SUCCESS>>, <<CHANGESET, MERGE>>, <<META, RESET>>,
   <<RESOURCE, RESET>>}

\* the first segment is the upper-cased name
OwnAction ==
  \E r \in Routes :
    Dispatch(state, MkAction(ActionType(USERS, r[1], r[2]), WithId(Num(1)), Page))

\* the first segment is the name in lower case
LowerCaseAction ==
  \E r \in Routes :
    Dispatch(state, MkAction(ActionType(users, r[1], r[2]), WithId(Num(1)), Page))

\* the first segment names another resource
ForeignAction ==
  \E r \in Routes :
    Dispatch(state, MkAction(ActionType(POSTS, r[1], r[2]), WithId(Num(1)), Page))

NextRouting == OwnAction \/ LowerCaseAction \/ ForeignAction

SpecRouting == InitRouting /\ [][NextRouting]_vars

(***************************************************************************)
(* SpecChangeset: the changeset actions on the forms "default" and "A",    *)
(* and the reset of the whole resource.                                    *)
(***************************************************************************)
FormMetas == {Undefined, Obj([form |-> Str("A")])}
Changes == {Obj([name |-> Str("x")]), Obj([age |-> Num(1)])}
FieldNames == {Str("name"), Arr(<<Str("name"), Str("age")>>)}

ChangesetMerge ==
  \E p \in Changes, m \in FormMetas :
    Dispatch(state, MkAction(ActionType(USERS, CHANGESET, MERGE), p, m))

ChangesetRemove ==
  \E p \in FieldNames, m \in FormMetas :
    Dispatch(state, MkAction(ActionType(USERS, CHANGESET, REMOVE), p, m))

ChangesetReset ==
  \E m \in FormMetas :
    Dispatch(state, MkAction(ActionType(USERS, CHANGESET, RESET), Undefined, m))

ResourceReset ==
  Dispatch(state, MkAction(ActionType(USERS, RESOURCE, RESET), Undefined, Undefined))

NextChangeset == ChangesetMerge \/ ChangesetRemove \/ ChangesetReset \/ ResourceReset

SpecChangeset == Init /\ [][NextChangeset]_vars

(***************************************************************************)
(* SpecStore: one store that receives every kind of action: the life cycle *)
(* of FETCH, the start of an operation outside the four defaults, the      *)
(* destruction of an entity, a changeset merge, the reset of meta and the  *)
(* reset of the resource.                                                  *)
(***************************************************************************)
ARCHIVE == <<"A", "R", "C", "H", "I", "V", "E">>

StoreStart ==
  \E x \in {FETCH, ARCHIVE} :
    Dispatch(state, MkAction(ActionType(USERS, x, START), Undefined, Undefined))

FetchEntity ==
  \E m \in {Page, Null} :
    Dispatch(state, MkAction(ActionType(USERS, FETCH, SUCCESS), WithId(Num(1)), m))

DestroyEntity ==
  \E p \in {Num(1), Str(NumStr(1)), Num(0)} :
    Dispatch(state, MkAction(ActionType(USERS, DESTROY, SUCCESS), p, Undefined))

FetchFailure ==
  Dispatch(state, MkAction(ActionType(USERS, FETCH, FAILURE), Str("error"), Undefined))

FetchReset ==
  Dispatch(state, MkAction(ActionType(USERS, FETCH, RESET), Undefined, Undefined))

DefaultFormMerge ==
  Dispatch(state, MkAction(ActionType(USERS, CHANGESET, MERGE), Obj([name |-> Str("x")]),
                           Undefined))

MetaReset ==
  Dispatch(state, MkAction(ActionType(USERS, META, RESET), Undefined, Undefined))

NextStore ==
  \/ StoreStart \/ FetchEntity \/ DestroyEntity \/ FetchFailure \/ FetchReset
  \/ DefaultFormMerge \/ MetaReset \/ ResourceReset

SpecStore == Init /\ [][NextStore]_vars

(***************************************************************************)
(* SpecForms: the changeset actions on the forms "default" and "A" of a    *)
(* store that also fetches an entity with a meta, resets its meta and is   *)
(* reset as a whole.                                                       *)
(***************************************************************************)
FormMerge ==
  \E p \in Changes, m \in FormMetas :
    Dispatch(state, MkAction(ActionType(USERS, CHANGESET, MERGE), p, m))

FormRemove ==
  \E m \in FormMetas :
    Dispatch(state, MkAction(ActionType(USERS, CHANGESET, REMOVE), Str("name"), m))

FormReset ==
  \E m \in FormMetas :
    Dispatch(state, MkAction(ActionType(USERS, CHANGESET, RESET), Undefined, m))

FetchPage ==
  Dispatch(state, MkAction(ActionType(USERS, FETCH, SUCCESS), WithId(Num(1)), Page))

NextForms ==
  FormMerge \/ FormRemove \/ FormReset \/ FetchPage \/ MetaReset \/ ResourceReset

SpecForms == Init /\ [][NextForms]_vars

(***************************************************************************)
(* SpecSegments: a store that fetches an entity and merges a changeset     *)
(* receives actions whose type has one, two or four segments.              *)
(***************************************************************************)
TwoSegments(resource, domain) == resource \o <<"/">> \o domain
FourSegments(resource, domain, method) == ActionType(resource, domain, method) \o <<"/", "X">>

\* types that do not have exactly three segments
MalformedOwn ==
  {USERS, TwoSegments(USERS, RESOURCE), TwoSegments(USERS, META), TwoSegments(USERS, FETCH),
   TwoSegments(USERS, CHANGESET), FourSegments(USERS, FETCH, START),
   FourSegments(USERS, RESOURCE, RESET)}
MalformedForeign == {POSTS, TwoSegments(POSTS, RESOURCE), FourSegments(POSTS, FETCH, START)}

OwnMalformed ==
  \E ty \in MalformedOwn : Dispatch(state, MkAction(ty, WithId(Num(1)), Page))

ForeignMalformed ==
  \E ty \in MalformedForeign : Dispatch(state, MkAction(ty, WithId(Num(1)), Page))

NextSegments == OwnMalformed \/ ForeignMalformed \/ FetchPage \/ DefaultFormMerge

SpecSegments == Init /\ [][NextSegments]_vars

(***************************************************************************)
(* SpecMeta: SUCCESS actions of two operations with truthy payloads that   *)
(* merge or destroy an entity or nothing, and metas that are absent, null, *)
(* false, or mappings with equal and with different keys.                  *)
(***************************************************************************)
SuccessMetas ==
  {Undefined, Null, JFalse, Page, Obj([page |-> Num(2)]), Obj([total |-> Num(1)])}

FetchWithMeta ==
  \E p \in {WithId(Num(1)), NoId}, m \in SuccessMetas :
    Dispatch(state, MkAction(ActionType(USERS, FETCH, SUCCESS), p, m))

DestroyWithMeta ==
  \E p \in {Num(1), NoId}, m \in SuccessMetas :
    Dispatch(state, MkAction(ActionType(USERS, DESTROY, SUCCESS), p, m))

NextMeta == FetchWithMeta \/ DestroyWithMeta

SpecMeta == Init /\ [][NextMeta]_vars

(***************************************************************************)
(* Properties.                                                             *)
(***************************************************************************)
\* the resource segment of an action type (every resource name of the
\* inputs has five letters)
NameSegment(type) == IF Len(type) < Len(USERS) THEN type ELSE SubSeq(type, 1, Len(USERS))

\* the status key of an operation of SpecStatus
StatusKey(x) == IF x = FETCH THEN fetch ELSE destroy

\* the slice is left as it was, buffers included, and nothing was thrown
SliceUnchanged == Contents(state', heap') = Contents(state, heap) /\ ~threw'

\* everything but `status` is left as it was
OnlyStatusChanged ==
  /\ state'.results = state.results
  /\ state'.entities = state.entities
  /\ state'.meta = state.meta
  /\ Buffers(state', heap') = Buffers(state, heap)

\* the identifiers listed in results, and their property keys
Listed(results) == {results[i] : i \in 1..Len(results)}
ListedKeys(results) == {ToPropertyKey(id) : id \in Listed(results)}

\* C1: in every reachable state every id in `results` has an entity under
\* that id and every key of `entities` appears in `results`.
ResultsMatchEntities ==
  /\ \A id \in Listed(state.results) : ToPropertyKey(id) \in DOMAIN state.entities
  /\ \A key \in DOMAIN state.entities : key \in ListedKeys(state.results)

\* C2: the reducer leaves the state it was given as it was: after the call
\* the contents of the previous state, its changeset buffers included, are
\* what they were before the call.
InputStateUntouched == [][Contents(state, heap') = Contents(state, heap)]_vars

\* C3: an action whose first type segment is not the upper-cased configured
\* name leaves every field of the slice unchanged.
IdentityOnMismatch == [][NameSegment(action'.type) # USERS => SliceUnchanged]_vars

\* a foreign action arrived at a slice that holds an entity and a buffer
IdentityOnMismatchWitness ==
  /\ NameSegment(action.type) = POSTS
  /\ NameSegment(previous) = USERS
  /\ state.results = <<Num(1)>>
  /\ "default" \in DOMAIN state.changeset

\* C4 as stated: an action whose first segment is the configured name in
\* another letter case is applied as the all-uppercase action is, so that
\* users/FETCH/START puts the fetch in flight.
CaseInsensitiveMatch ==
  [][action'.type = ActionType(users, FETCH, START)
       => state'.status[fetch] = [pending |-> JTrue, busy |-> JTrue, success |-> Null,
                                  payload |-> action'.payload]]_vars

\* C4 amended: only the configured name is upper-cased.  USERS/FETCH/START
\* puts the fetch in flight for a reducer configured as "users" or "USERS";
\* an action whose first segment is "users" leaves the slice unchanged.
CaseSensitiveMatch ==
  [][/\ action'.type = ActionType(USERS, FETCH, START)
          => state'.status[fetch] = [pending |-> JTrue, busy |-> JTrue, success |-> Null,
                                     payload |-> action'.payload]
     /\ NameSegment(action'.type) = users => SliceUnchanged]_vars

\* a reducer configured as "users" ignored users/FETCH/START after it had
\* applied USERS/FETCH/SUCCESS
CaseSensitiveMatchWitness ==
  /\ resourceName = users
  /\ previous = ActionType(USERS, FETCH, SUCCESS)
  /\ action.type = ActionType(users, FETCH, START)
  /\ state.status[fetch].success = JTrue
  /\ state.status[fetch].busy = JFalse

\* status[x] is settled as succeeded
Settled(status) ==
  status.pending = JFalse /\ status.busy = JFalse /\ status.success = JTrue

\* status[x] is in flight
InFlight(status) ==
  status.pending = JTrue /\ status.busy = JTrue /\ status.success = Null

\* C5 as stated: X/START followed by X/SUCCESS, whatever the payloads,
\* leaves status[x] with pending=false, busy=false, success=true.
RoundTripAnyPayload ==
  [][\A x \in Operations :
       (action.type = ActionType(USERS, x, START)
          /\ action'.type = ActionType(USERS, x, SUCCESS))
       => Settled(state'.status[StatusKey(x)])]_vars

\* C5 amended: X/START followed by X/SUCCESS leaves status[x] with
\* pending=false, busy=false, success=true when the SUCCESS payload is
\* truthy, and in flight as START left it when the SUCCESS payload is falsy.
RoundTripTruthyPayload ==
  [][\A x \in Operations :
       (action.type = ActionType(USERS, x, START)
          /\ action'.type = ActionType(USERS, x, SUCCESS))
       => IF action'.payload \in FalsyPayloads
          THEN InFlight(state'.status[StatusKey(x)])
                 /\ state'.status[StatusKey(x)].payload = action.payload
          ELSE Settled(state'.status[StatusKey(x)])
                 /\ state'.status[StatusKey(x)].payload = action'.payload]_vars

\* FETCH/START and then FETCH/SUCCESS with an entity have been applied
RoundTripWitness ==
  /\ previous = ActionType(USERS, FETCH, START)
  /\ action.type = ActionType(USERS, FETCH, SUCCESS)
  /\ action.payload = WithId(Num(1))
  /\ Settled(state.status[fetch])

\* C6: X/FAILURE leaves status[x] = {pending: true, busy: false, success:
\* false, payload: P}, P being null for a falsy payload and the payload
\* otherwise; results, entities, meta and changeset are unchanged.
FailureStatus ==
  [][\A x \in Operations :
       action'.type = ActionType(USERS, x, FAILURE)
       => /\ state'.status[StatusKey(x)] =
               [pending |-> JTrue, busy |-> JFalse, success |-> JFalse,
                payload |-> IF action'.payload \in FalsyPayloads
                            THEN Null ELSE action'.payload]
          /\ OnlyStatusChanged
          /\ ~threw']_vars

\* DESTROY/FAILURE with an error has been applied directly after
\* DESTROY/START, on a slice that holds an entity
FailureStatusWitness ==
  /\ previous = ActionType(USERS, DESTROY, START)
  /\ action.type = ActionType(USERS, DESTROY, FAILURE)
  /\ state.status[destroy] =
       [pending |-> JTrue, busy |-> JFalse, success |-> JFalse, payload |-> Str("error")]
  /\ state.results = <<Num(1)>>

\* C7: a SUCCESS action with a falsy payload returns a state equal to the
\* previous one in results, entities, meta, changeset and every status.
FalsySuccessNoOp ==
  [][\A x \in Operations :
       (action'.type = ActionType(USERS, x, SUCCESS) /\ action'.payload \in FalsyPayloads)
       => SliceUnchanged]_vars

\* DESTROY/SUCCESS with payload 0 and a meta has been applied to a slice
\* whose destroy is in flight and whose meta is empty
FalsySuccessNoOpWitness ==
  /\ previous = ActionType(USERS, DESTROY, START)
  /\ action = MkAction(ActionType(USERS, DESTROY, SUCCESS), Num(0), Page)
  /\ InFlight(state.status[destroy])
  /\ state.meta = EmptyMap
  /\ state.results = <<Num(1)>>

\* the identifier a DESTROY payload element names
Named(obj) == IF obj.t \in {"number", "string"} THEN obj ELSE Get(obj, "id")

\* C8: DESTROY/SUCCESS for an identifier applied twice yields the results
\* and entities of applying it once, and destroying an identifier that is
\* not listed leaves results and entities unchanged.
IdempotentDestroy ==
  [][(action'.type = ActionType(USERS, DESTROY, SUCCESS) /\ ~threw')
       => /\ (action = action' /\ ~threw)
               => (state'.results = state.results /\ state'.entities = state.entities)
          /\ (\A i \in 1..Len(AsArray(action'.payload)) :
                Named(AsArray(action'.payload)[i]) \notin Listed(state.results))
               => (state'.results = state.results /\ state'.entities = state.entities)]_vars

\* the identifiers of the elements of an update payload, in payload order
PayloadIds(payload) ==
  [i \in 1..Len(AsArray(payload)) |-> Get(AsArray(payload)[i], "id")]

\* the identifiers appended by a step
Appended == SubSeq(state'.results, Len(state.results) + 1, Len(state'.results))

\* the place of the first occurrence of id in a sequence
First(seq, id) == CHOOSE i \in 1..Len(seq) : seq[i] = id /\ \A j \in 1..(i - 1) : seq[j] # id

\* C9: a non-DESTROY SUCCESS whose elements carry identifiers keeps every
\* listed identifier at its position, appends each identifier not yet
\* listed at the end in payload order, and adds nothing for an element
\* with a falsy identifier while the other elements are processed.
OrderPreservation ==
  [][(/\ action'.type = ActionType(USERS, FETCH, SUCCESS)
      /\ \A i \in 1..Len(AsArray(action'.payload)) : ~Nullish(AsArray(action'.payload)[i]))
       => LET ids == PayloadIds(action'.payload)
              fresh == {id \in Listed(ids) : id \notin FalsyPayloads} \ Listed(state.results)
          IN /\ ~threw'
             /\ SubSeq(state'.results, 1, Len(state.results)) = state.results
             /\ Listed(Appended) = fresh
             /\ Len(Appended) = Cardinality(fresh)
             /\ \A i, j \in 1..Len(Appended) :
                  i < j => First(ids, Appended[i]) < First(ids, Appended[j])
             /\ DOMAIN state'.entities =
                  (DOMAIN state.entities)
                    \cup {ToPropertyKey(id) : id \in {n \in Listed(ids) : n \notin FalsyPayloads}}]_vars

\* the array [{id: 0}, {id: 1}] has been merged into a slice that listed 2:
\* 2 kept its place, 1 went to the end, nothing was added for id 0
OrderPreservationWitness ==
  /\ action = MkAction(ActionType(USERS, FETCH, SUCCESS),
                       Arr(<<WithId(Num(0)), WithId(Num(1))>>), Undefined)
  /\ previous = ActionType(USERS, DESTROY, SUCCESS)
  /\ state.results = <<Num(2), Num(1)>>
  /\ DOMAIN state.entities = {"1", "2"}

\* C10: X/RESET sets status[x] to the idle default and leaves results,
\* entities, meta, changeset and every other status unchanged.
ResetIndependence ==
  [][\A x \in Operations :
       action'.type = ActionType(USERS, x, RESET)
       => /\ state'.status[StatusKey(x)].pending = Null
          /\ state'.status[StatusKey(x)].success = Null
          /\ state'.status[StatusKey(x)].busy = JFalse
          /\ OnlyStatusChanged
          /\ DOMAIN state'.status = DOMAIN state.status
          /\ \A key \in DOMAIN state.status :
               key # StatusKey(x) => state'.status[key] = state.status[key]
          /\ ~threw']_vars

\* FETCH/RESET has been applied after a failed fetch while a destroy was in
\* flight, on a slice with an entity and a meta
ResetIndependenceWitness ==
  /\ previous = ActionType(USERS, FETCH, FAILURE)
  /\ action.type = ActionType(USERS, FETCH, RESET)
  /\ state.status[fetch] = defaultStatus
  /\ InFlight(state.status[destroy])
  /\ state.results = <<Num(1)>>
  /\ state.meta = [page |-> Num(1)]

\* the form a changeset action of the inputs targets
FormOf(m) == IF m.t = "object" /\ "form" \in DOMAIN m.f THEN m.f["form"].s ELSE "default"

\* the types of the changeset actions
ChangesetTypes == {ActionType(USERS, CHANGESET, method) : method \in {MERGE, REMOVE, RESET}}

\* the buffers `before` and `after` agree on every form but A
OtherFormsKept(before, after, A) ==
  /\ (DOMAIN after) \ {A} = (DOMAIN before) \ {A}
  /\ \A B \in (DOMAIN before) \ {A} : after[B] = before[B]

\* `after` holds for A the shallow merge of the changes over the buffer of
\* A in `before`, an absent buffer counting as empty
MergedInto(before, after, A, changes) ==
  /\ A \in DOMAIN after
  /\ DOMAIN after[A] = (DOMAIN changes) \cup (IF A \in DOMAIN before THEN DOMAIN before[A] ELSE {})
  /\ \A k \in DOMAIN after[A] :
       after[A][k] = IF k \in DOMAIN changes THEN changes[k] ELSE before[A][k]

\* C11: a CHANGESET MERGE, REMOVE or RESET targeting form A leaves the
\* buffer of every other form, results, entities, meta and status as they
\* were; after MERGE changeset[A] is the payload shallow-merged over the
\* previous buffer of A.
ChangesetIsolation ==
  [][action'.type \in ChangesetTypes
       => /\ OtherFormsKept(Buffers(state, heap), Buffers(state', heap'), FormOf(action'.meta))
          /\ state'.results = state.results
          /\ state'.entities = state.entities
          /\ state'.meta = state.meta
          /\ state'.status = state.status
          /\ action'.type = ActionType(USERS, CHANGESET, MERGE)
               => MergedInto(Buffers(state, heap), Buffers(state', heap'),
                             FormOf(action'.meta), action'.payload.f)]_vars

\* {name: "x"} has been merged into form A, which held {age: 1}, while the
\* default form held another buffer and the slice an entity and a meta
ChangesetIsolationWitness ==
  /\ action = MkAction(ActionType(USERS, CHANGESET, MERGE), Obj([name |-> Str("x")]),
                       Obj([form |-> Str("A")]))
  /\ previous = ActionType(USERS, CHANGESET, MERGE)
  /\ DOMAIN state.changeset = {"default", "A"}
  /\ Buffers(state, heap)["A"] = [name |-> Str("x"), age |-> Num(1)]
  /\ Buffers(state, heap)["default"] = [age |-> Num(1)]
  /\ state.results = <<Num(1)>>
  /\ state.meta = [page |-> Num(1)]

\* C12: the reducer never throws: no call of it with an action of the
\* consumed shape ends in an exception.
NeverThrows == ~threw

\* C14: a form is present in changeset only after a CHANGESET/MERGE or
\* CHANGESET/RESET targeting it: a step that makes a form appear is such an
\* action for that form, and the reset of the resource leaves no form.
FormPresence ==
  [][/\ \A f \in (DOMAIN state'.changeset) \ (DOMAIN state.changeset) :
          /\ action'.type \in {ActionType(USERS, CHANGESET, MERGE),
                                ActionType(USERS, CHANGESET, RESET)}
          /\ f = FormOf(action'.meta)
     /\ action'.type = ActionType(USERS, RESOURCE, RESET) => DOMAIN state'.changeset = {}]_vars

\* after a reset of the resource and a fetch, CHANGESET/REMOVE on the
\* default form found no buffer and created none, while form A, reset
\* before, is present
FormPresenceWitness ==
  /\ action.type = ActionType(USERS, CHANGESET, REMOVE)
  /\ FormOf(action.meta) = "default"
  /\ previous = ActionType(USERS, FETCH, SUCCESS)
  /\ DOMAIN state.changeset = {"A"}
  /\ state.results = <<Num(1)>>

\* the action is a DESTROY/SUCCESS that names the identifier id
DestroysId(act, id) ==
  /\ act.type = ActionType(USERS, DESTROY, SUCCESS)
  /\ \E i \in 1..Len(AsArray(act.payload)) : Named(AsArray(act.payload)[i]) = id

\* the action is a DESTROY/SUCCESS that names an identifier stored under key
DestroysKey(act, key) ==
  /\ act.type = ActionType(USERS, DESTROY, SUCCESS)
  /\ \E i \in 1..Len(AsArray(act.payload)) :
       ToPropertyKey(Named(AsArray(act.payload)[i])) = key

\* C13 as stated: an identifier listed in results, or an entity, that a
\* step removes is named by that step's DESTROY/SUCCESS; no other action,
\* the reset of the resource included, removes one.
RemovalOnlyByDestroy ==
  [][/\ \A id \in Listed(state.results) \ Listed(state'.results) : DestroysId(action', id)
     /\ \A key \in (DOMAIN state.entities) \ (DOMAIN state'.entities) :
          DestroysKey(action', key)]_vars

\* C13 amended: an identifier leaves results, and an entity leaves
\* entities, only by a DESTROY/SUCCESS naming it or by the reset of the
\* whole resource, which empties both.
RemovalByDestroyOrReset ==
  [][/\ \A id \in Listed(state.results) \ Listed(state'.results) :
          DestroysId(action', id) \/ action'.type = ActionType(USERS, RESOURCE, RESET)
     /\ \A key \in (DOMAIN state.entities) \ (DOMAIN state'.entities) :
          DestroysKey(action', key) \/ action'.type = ActionType(USERS, RESOURCE, RESET)
     /\ action'.type = ActionType(USERS, RESOURCE, RESET)
          => state'.results = <<>> /\ state'.entities = EmptyMap]_vars

\* the reset of the resource has been applied to a slice that had just
\* fetched an entity, and has removed it
RemovalByResetWitness ==
  /\ previous = ActionType(USERS, FETCH, SUCCESS)
  /\ action.type = ActionType(USERS, RESOURCE, RESET)
  /\ state.results = <<>>
  /\ state.entities = EmptyMap
  /\ ~threw

\* an OperationStatus record
IsOperationStatus(status) ==
  /\ {"pending", "busy", "success", "payload"} \subseteq DOMAIN status
  /\ status.pending \in {Null, JTrue, JFalse}
  /\ status.busy \in {JTrue, JFalse}
  /\ status.success \in {Null, JTrue, JFalse}

\* C15: in every reachable state `status` has the keys fetch, create,
\* update and destroy, each holding an OperationStatus record.
FourStatusKeys ==
  \A key \in {fetch, create, update, destroy} :
    key \in DOMAIN state.status /\ IsOperationStatus(state.status[key])

\* the status key of the operation outside the four defaults
archive == <<"a", "r", "c", "h", "i", "v", "e">>

\* an operation outside the four defaults has added its key next to the
\* four, after a reset of the whole resource, and the fetch has failed
FourStatusKeysWitness ==
  /\ DOMAIN state.status = {fetch, create, update, destroy, archive}
  /\ state.status[archive].busy = JTrue
  /\ state.status[fetch].success = JFalse
  /\ state.status[destroy].success = JTrue
  /\ previous = ActionType(USERS, FETCH, FAILURE)

\* the operations of SpecStore and the methods of the life cycle
LifeCycleOperations == {FETCH, DESTROY, ARCHIVE}
LifeCycleMethods == {START, SUCCESS, FAILURE, RESET}

\* the action is a life cycle action that writes status[key]: every method
\* but a SUCCESS with a falsy payload
WritesStatus(act, key) ==
  \E x \in LifeCycleOperations, method \in LifeCycleMethods :
    /\ act.type = ActionType(USERS, x, method)
    /\ key = toLowerCase(x)
    /\ method = SUCCESS => act.payload \notin FalsyPayloads

\* the record a life cycle action writes
WrittenBy(act) ==
  CASE \E x \in LifeCycleOperations : act.type = ActionType(USERS, x, START) ->
         [pending |-> JTrue, busy |-> JTrue, success |-> Null, payload |-> act.payload]
    [] \E x \in LifeCycleOperations : act.type = ActionType(USERS, x, SUCCESS) ->
         [pending |-> JFalse, busy |-> JFalse, success |-> JTrue, payload |-> act.payload]
    [] \E x \in LifeCycleOperations : act.type = ActionType(USERS, x, FAILURE) ->
         [pending |-> JTrue, busy |-> JFalse, success |-> JFalse,
          payload |-> IF act.payload \in FalsyPayloads THEN Null ELSE act.payload]
    [] OTHER ->
         [pending |-> Null, id |-> Null, busy |-> JFalse, success |-> Null, payload |-> Null]

\* C20: status[x] is decided by the last effective action of operation X:
\* an X/START, X/SUCCESS with a truthy payload, X/FAILURE or X/RESET sets
\* status[x] to the record it writes, the reset of the resource sets the
\* four statuses to the idle default, and every other step (another
\* operation, META, CHANGESET, a SUCCESS with a falsy payload) leaves
\* status[x] as it was.
LastActionDecides ==
  [][IF action'.type = ActionType(USERS, RESOURCE, RESET)
     THEN /\ DOMAIN state'.status = {fetch, create, update, destroy}
          /\ \A key \in DOMAIN state'.status :
               state'.status[key] =
                 [pending |-> Null, id |-> Null, busy |-> JFalse, success |-> Null,
                  payload |-> Null]
     ELSE /\ \A key \in DOMAIN state'.status :
               IF WritesStatus(action', key)
               THEN state'.status[key] = WrittenBy(action')
               ELSE key \in DOMAIN state.status /\ state'.status[key] = state.status[key]
          /\ DOMAIN state.status \subseteq DOMAIN state'.status
          /\ ~threw']_vars

\* after FETCH/FAILURE, DESTROY/SUCCESS and ARCHIVE/START, a reset of meta
\* has left the three statuses as those actions wrote them
LastActionDecidesWitness ==
  /\ action.type = ActionType(USERS, META, RESET)
  /\ previous = ActionType(USERS, ARCHIVE, START)
  /\ state.status[fetch] =
       [pending |-> JTrue, busy |-> JFalse, success |-> JFalse, payload |-> Str("error")]
  /\ state.status[destroy] =
       [pending |-> JFalse, busy |-> JFalse, success |-> JTrue, payload |-> Num(1)]
  /\ state.status[archive] =
       [pending |-> JTrue, busy |-> JTrue, success |-> Null, payload |-> Undefined]
  /\ state.results = <<Num(1)>>

\* C16: in every reachable state `results` holds no identifier twice.
NoDuplicates ==
  \A i, j \in 1..Len(state.results) : i # j => state.results[i] # state.results[j]

\* an array that repeats the identifier 1 in every element has been applied
\* after another FETCH/SUCCESS, and results lists 1 once
NoDuplicatesWitness ==
  /\ action.type = ActionType(USERS, FETCH, SUCCESS)
  /\ previous = ActionType(USERS, FETCH, SUCCESS)
  /\ action.payload.t = "array"
  /\ Len(action.payload.a) >= 2
  /\ \A i \in 1..Len(action.payload.a) : action.payload.a[i] = WithId(Num(1))
  /\ state.results = <<Num(1)>>
  /\ ~threw

\* C17: status[x].busy is true while a request of kind X is in flight, also
\* for overlapping requests: after two X/START in a row and one X/SUCCESS
\* with a truthy payload one request is still in flight, so busy is true.
BusyWhileInFlight ==
  [][\A x \in Operations :
       (/\ previous = ActionType(USERS, x, START)
        /\ action.type = ActionType(USERS, x, START)
        /\ action'.type = ActionType(USERS, x, SUCCESS)
        /\ action'.payload \notin FalsyPayloads)
       => state'.status[StatusKey(x)].busy = JTrue]_vars

\* the types of SpecSegments that do not have exactly three segments
MalformedTypes == MalformedOwn \cup MalformedForeign

MetaFields(m) == IF m.t = "object" THEN m.f ELSE EmptyMap

\* C19: a SUCCESS with a truthy payload sets meta to the empty mapping when
\* the action's meta is null or false, and otherwise to the previous meta
\* with the action's meta fields merged over it: the action's keys win, the
\* other keys keep their value, an absent meta changes nothing.
MetaOnSuccess ==
  [][\A x \in Operations :
       (action'.type = ActionType(USERS, x, SUCCESS) /\ action'.payload \notin FalsyPayloads)
       => /\ ~threw'
          /\ IF action'.meta \in {Null, JFalse}
             THEN state'.meta = EmptyMap
             ELSE /\ DOMAIN state'.meta =
                       (DOMAIN state.meta) \cup (DOMAIN MetaFields(action'.meta))
                  /\ \A k \in DOMAIN state'.meta :
                       state'.meta[k] = IF k \in DOMAIN MetaFields(action'.meta)
                                        THEN MetaFields(action'.meta)[k]
                                        ELSE state.meta[k]]_vars

\* a FETCH/SUCCESS whose element carries no id, so that nothing was merged,
\* has set page to 2 in a meta that holds total as well
MetaOnSuccessWitness ==
  /\ action = MkAction(ActionType(USERS, FETCH, SUCCESS), NoId, Obj([page |-> Num(2)]))
  /\ state.meta = [page |-> Num(2), total |-> Num(1)]
  /\ state.results = <<>>
  /\ state.status[fetch].success = JTrue

====
